---- MODULE Spec2Model ----
(***************************************************************************)
(* Model of backend/server.js: an Express application with a JSON body     *)
(* parser that captures the raw body, a CORS middleware, a health route,   *)
(* POST /api/create-link (relay to the payment provider) and               *)
(* POST /api/webhook (HMAC-verified provider notifications).               *)
(*                                                                         *)
(* A request body is a sequence of units.  A unit stands for one piece of  *)
(* the transmitted bytes: a bracket, one "key":value member of a JSON      *)
(* object, or a byte "x" that is no JSON token.                            *)
(*                                                                         *)
(* Once a request body has been read, express.json's verify hook, the      *)
(* JSON parse, the CORS middleware and the route handler run in one        *)
(* synchronous call stack, so a request is handled by one action up to its *)
(* response or up to its first await (the fetch of create-link).           *)
(***************************************************************************)
EXTENDS Integers, Sequences, FiniteSets, Bags, TLC

VARIABLES
    webhookSecret,   \* process.env.RAZOR_WEBHOOK_SECRET ("" when not set)
    pending,         \* bag of create-link requests suspended at an await
    done             \* the exchange completed last: request, response, what ran

vars == <<webhookSecret, pending, done>>

----------------------------------------------------------------------------
(* Bounds *)

\* create-link requests that may be suspended at an await at the same time
MaxReqs == 1
\* hex characters of a digest (64 for SHA-256; shortened, still injective)
DigestLen == 5

----------------------------------------------------------------------------
(* JavaScript values *)

Undefined == [t |-> "undefined", v |-> 0, inf |-> FALSE]
Num(m) == [t |-> "number", v |-> m, inf |-> FALSE]      \* m in thousandths
Infinity == [t |-> "number", v |-> 0, inf |-> TRUE]
Str == [t |-> "string", v |-> 10, inf |-> FALSE]        \* the string "10"

\* !x for the values above
Falsy(x) == x.t = "undefined" \/ (x.t = "number" /\ ~x.inf /\ x.v = 0)

----------------------------------------------------------------------------
(* Request bodies *)

\* "event":"payment_link.paid", "event":"payment.captured", "payload":{...}
EventUnits == {"Ep", "Eo"}
PayloadUnits == {"Ld"}
\* "amount_in_inr": 0, 499.5, -5, 1e999, "10"
AmountUnits == {"A0", "Ap", "Am", "Ai", "As"}
MemberUnits == EventUnits \cup PayloadUnits \cup AmountUnits
\* what a byte changed in transit may become
TamperUnits == {"{", "}", "[", "]", "x"} \cup EventUnits \cup PayloadUnits

UnitCode(u) ==
    CASE u = "{" -> 1 [] u = "}" -> 2 [] u = "[" -> 3 [] u = "]" -> 4
      [] u = "Ep" -> 5 [] u = "Eo" -> 6 [] u = "Ld" -> 7 [] u = "x" -> 8
      [] u = "A0" -> 9 [] u = "Ap" -> 10 [] u = "Am" -> 11 [] u = "Ai" -> 12
      [] u = "As" -> 13

Opt(units) == {<<>>} \cup {<<u>> : u \in units}

\* the bodies the provider signs: JSON objects, an empty body, an array, text
WebhookBodies ==
    {<<"{">> \o e \o l \o <<"}">> : e \in Opt(EventUnits), l \in Opt(PayloadUnits)}
        \cup {<<>>, <<"[", "]">>, <<"x">>}

\* the bodies a client posts to create-link
LinkBodies ==
    {<<"{">> \o a \o <<"}">> : a \in Opt(AmountUnits)}
        \cup {<<>>, <<"[", "]">>, <<"{", "Ap">>}

\* b with exactly one unit changed
Tampered(b) ==
    {[b EXCEPT ![i] = u] : i \in 1..Len(b), u \in TamperUnits} \ {b}

OneByteApart(a, b) ==
    /\ Len(a) = Len(b)
    /\ Cardinality({i \in 1..Len(a) : a[i] # b[i]}) = 1

----------------------------------------------------------------------------
(* express.json: body-parser's JSON parser with the verify hook *)

EmptyObject ==
    [kind |-> "object", event |-> "undefined", payload |-> "undefined",
     amount |-> Undefined]
EmptyArray == [EmptyObject EXCEPT !.kind = "array"]
UndefinedBody == [EmptyObject EXCEPT !.kind = "undefined"]

\* req.body where express.json parsed nothing: {} (body-parser 1.x) or
\* undefined (body-parser 2.x)
BodyDefaults == {EmptyObject, UndefinedBody}

SetMember(obj, u) ==
    CASE u = "Ep" -> [obj EXCEPT !.event = "payment_link.paid"]
      [] u = "Eo" -> [obj EXCEPT !.event = "payment.captured"]
      [] u = "Ld" -> [obj EXCEPT !.payload = "object"]
      [] u = "A0" -> [obj EXCEPT !.amount = Num(0)]
      [] u = "Ap" -> [obj EXCEPT !.amount = Num(499500)]
      [] u = "Am" -> [obj EXCEPT !.amount = Num(-5000)]
      [] u = "Ai" -> [obj EXCEPT !.amount = Infinity]
      [] u = "As" -> [obj EXCEPT !.amount = Str]

\* strict mode: the text is an object or an array, and JSON.parse accepts it
WellFormed(b) ==
    \/ b = <<>>
    \/ b = <<"[", "]">>
    \/ /\ Len(b) >= 2
       /\ b[1] = "{"
       /\ b[Len(b)] = "}"
       /\ \A i \in 2..(Len(b) - 1) : b[i] \in MemberUnits

RECURSIVE ParseMembers(_, _, _)
ParseMembers(b, i, obj) ==
    IF i >= Len(b) THEN obj ELSE ParseMembers(b, i + 1, SetMember(obj, b[i]))

\* JSON.parse of a well-formed body; a later duplicate key wins
JsonParse(b) ==
    IF b = <<>> THEN EmptyObject
    ELSE IF b[1] = "[" THEN EmptyArray
    ELSE ParseMembers(b, 2, EmptyObject)

NoRaw == [defined |-> FALSE, bytes |-> <<>>]
Raw(b) == [defined |-> TRUE, bytes |-> b]

\* the middleware of lines 9-13: status 0 means next() was called
JsonParser(req, dflt) ==
    IF ~req.hasBody \/ req.ctype # "json"
    THEN [status |-> 0, read |-> FALSE, raw |-> NoRaw, body |-> dflt]
    ELSE IF ~WellFormed(req.body)
    THEN [status |-> 400, read |-> TRUE, raw |-> Raw(req.body), body |-> dflt]
    ELSE [status |-> 0, read |-> TRUE, raw |-> Raw(req.body),
          body |-> JsonParse(req.body)]

----------------------------------------------------------------------------
(* HMAC-SHA256, hex encoded, and the comparison of line 99 *)

Keys == {"whsec_live", "whsec_other"}
KeyCode(k) == IF k = "" THEN 0 ELSE IF k = "whsec_live" THEN 1 ELSE 2

RECURSIVE BodyCode(_)
BodyCode(b) ==
    IF b = <<>> THEN 0
    ELSE BodyCode(SubSeq(b, 1, Len(b) - 1)) * 14 + UnitCode(b[Len(b)])

RECURSIVE Pow(_, _)
Pow(x, n) == IF n = 0 THEN 1 ELSE x * Pow(x, n - 1)

\* the digest as DigestLen hex characters, most significant first
ToHex(n) == [i \in 1..DigestLen |-> (n \div Pow(16, DigestLen - i)) % 16]

\* crypto.createHmac('sha256', key).update(bytes).digest('hex'): one digest
\* per (key, bytes), different for different arguments
HmacHex(key, bytes) ==
    ToHex((BodyCode(bytes) * 3 + KeyCode(key)) % Pow(16, DigestLen))

\* a guess at a digest that is right except for the character at position i
ForgeAt(digest, i) == [digest EXCEPT ![i] = (digest[i] + 1) % 16]

NoSig == [present |-> FALSE, v |-> <<>>]
Header(v) == [present |-> TRUE, v |-> v]

\* a comparison that looks at the lengths only
StrictEqualsLengthOnly(sig, expected) == sig.present /\ Len(sig.v) = Len(expected)
\* signature === expected: the header is compared with the digest as strings
StrictEquals(sig, expected) == sig.present /\ sig.v = expected

\* characters the string comparison examines: none when the lengths differ,
\* otherwise up to and including the first character that differs
StrictEqualsWork(sig, expected) ==
    IF ~sig.present \/ Len(sig.v) # Len(expected) THEN 0
    ELSE LET diff == {i \in 1..Len(expected) : sig.v[i] # expected[i]}
         IN IF diff = {} THEN Len(expected)
            ELSE CHOOSE i \in diff : \A j \in diff : i <= j

----------------------------------------------------------------------------
(* Responses *)

NoData == [json |-> FALSE, short_url |-> "undefined", link_url |-> "undefined",
           error |-> "undefined"]
NoDetails == [present |-> FALSE, data |-> NoData]

Response(status, text, acao) ==
    [status |-> status, text |-> text, acao |-> acao, link_url |-> "undefined",
     details |-> NoDetails]

\* the default error handler's answer to an error raised by express.json,
\* sent before the CORS middleware has set any header
ParserError(status) == Response(status, "SyntaxError", FALSE)

\* the default error handler's answer to an exception thrown by a route handler
Uncaught == Response(500, "Internal Server Error", TRUE)

\* lines 9-23: express.json, then the CORS middleware.  next is TRUE when the
\* request goes on to the router
Middleware(req, dflt) ==
    LET p == JsonParser(req, dflt)
        ran == IF p.read THEN <<"json">> ELSE <<>>
    IN IF p.status # 0
       THEN [next |-> FALSE, res |-> ParserError(p.status), stages |-> ran,
             raw |-> p.raw, body |-> p.body]
       ELSE IF req.method = "OPTIONS"
       THEN [next |-> FALSE, res |-> Response(204, "No Content", TRUE),
             stages |-> Append(ran, "cors"), raw |-> p.raw, body |-> p.body]
       ELSE [next |-> TRUE, res |-> Response(0, "", TRUE),
             stages |-> Append(ran, "cors"), raw |-> p.raw, body |-> p.body]

----------------------------------------------------------------------------
(* POST /api/webhook, lines 83-114 *)

\* a handler that does not test the secret
SecretAssumed(secret) == TRUE
\* !webhookSecret is false
SecretConfigured(secret) == secret # ""

\* a test that forgets the signature header
MissingRawOnly(sig, raw) == ~raw.defined
\* !signature || !raw: an absent or empty header, or no captured buffer (a
\* captured buffer is an object, and truthy even when it holds no byte)
MissingSignatureOrRaw(sig, raw) == ~sig.present \/ sig.v = <<>> \/ ~raw.defined

\* JSON.stringify of a parsed body: its members in a fixed order
Stringify(body) ==
    IF body.kind = "array" THEN <<"[", "]">>
    ELSE <<"{">>
         \o (CASE body.event = "payment_link.paid" -> <<"Ep">>
               [] body.event = "payment.captured" -> <<"Eo">>
               [] OTHER -> <<>>)
         \o (IF body.payload = "object" THEN <<"Ld">> ELSE <<>>)
         \o <<"}">>

\* a digest over the parsed body serialized again, not over the raw bytes
ExpectedOverParsedBody(secret, raw, body) == HmacHex(secret, Stringify(body))
\* the digest the handler expects: over the captured raw bytes
ExpectedSignature(secret, raw, body) == HmacHex(secret, raw.bytes)

\* the payload alone, without the fallback to the body
PaidLogArgNoFallback(body) == body.payload
\* what line 106 hands to JSON.stringify: req.body.payload || req.body
PaidLogArg(body) == IF body.payload # "undefined" THEN body.payload ELSE "object"

\* the route handler, entered with the middleware's result m.  A TypeError
\* thrown inside it ends in the default error handler.
WebhookHandler(req, m, secret) ==
    LET at == Append(m.stages, "webhook")
        expected == ExpectedSignature(secret, m.raw, m.body)
    IN IF ~SecretConfigured(secret)
       THEN [res |-> Response(500, "webhook secret not configured", TRUE),
             stages |-> at, cmpWork |-> -1]
       ELSE IF MissingSignatureOrRaw(req.sig, m.raw)
       THEN [res |-> Response(400, "bad request", TRUE),
             stages |-> at, cmpWork |-> -1]
       ELSE IF ~StrictEquals(req.sig, expected)
       THEN [res |-> Response(400, "invalid signature", TRUE),
             stages |-> Append(at, "hmac"),
             cmpWork |-> StrictEqualsWork(req.sig, expected)]
       ELSE LET work == StrictEqualsWork(req.sig, expected)
                matched == at \o <<"hmac", "match">>
            IN IF m.body.kind = "undefined"
               THEN [res |-> Uncaught, stages |-> matched, cmpWork |-> work]
               ELSE IF m.body.event # "payment_link.paid"
               THEN [res |-> Response(200, "ok", TRUE),
                     stages |-> Append(matched, "event"), cmpWork |-> work]
               ELSE IF PaidLogArg(m.body) = "undefined"
               THEN [res |-> Uncaught,
                     stages |-> matched \o <<"event", "paid">>, cmpWork |-> work]
               ELSE [res |-> Response(200, "ok", TRUE),
                     stages |-> matched \o <<"event", "paid">>, cmpWork |-> work]

----------------------------------------------------------------------------
(* Requests and exchanges *)

Request(method, path, ctype, hasBody, body, sig, signed) ==
    [method |-> method, path |-> path, ctype |-> ctype, hasBody |-> hasBody,
     body |-> body, sig |-> sig, signed |-> signed]

NoProvider == [fetch |-> "none", ok |-> FALSE, json |-> "none", data |-> NoData]

Exchange(req, res, stages, cmpWork, calls, prov) ==
    [req |-> req, res |-> res, stages |-> stages, cmpWork |-> cmpWork,
     calls |-> calls, prov |-> prov]

NoExchange ==
    Exchange(Request("none", "", "none", FALSE, <<>>, NoSig, <<>>),
             Response(0, "", FALSE), <<>>, -1, 0, NoProvider)

\* a body as it is put on the wire: none, or bytes with a content type
Wire(bodies) ==
    {[hasBody |-> FALSE, ctype |-> "none", body |-> <<>>]}
        \cup {[hasBody |-> TRUE, ctype |-> c, body |-> b] :
                 c \in {"json", "text"}, b \in bodies}

\* webhook deliveries: as signed by some key, unsigned, with a guessed
\* signature, or with one unit changed after signing
WebhookRequests ==
    {Request("POST", "/api/webhook", w.ctype, w.hasBody, w.body, s, w.body) :
        w \in Wire(WebhookBodies),
        s \in {NoSig, Header(<<>>)}}
    \cup
    {Request("POST", "/api/webhook", w.ctype, w.hasBody, w.body,
             Header(HmacHex(k, w.body)), w.body) :
        w \in Wire(WebhookBodies), k \in Keys}
    \cup
    {Request("POST", "/api/webhook", "json", TRUE, b,
             Header(ForgeAt(HmacHex("whsec_live", b), i)), b) :
        b \in {<<>>, <<"{", "Ep", "}">>}, i \in 1..DigestLen}
    \cup
    {Request("POST", "/api/webhook", "json", TRUE, t[2],
             Header(HmacHex("whsec_live", t[1])), t[1]) :
        t \in UNION {{<<b, x>> : x \in Tampered(b)} : b \in WebhookBodies}}

LinkRequests ==
    {Request("POST", "/api/create-link", w.ctype, w.hasBody, w.body, NoSig, w.body) :
        w \in Wire(LinkBodies)}

PreflightRequests ==
    {Request("OPTIONS", path, w.ctype, w.hasBody, w.body, s, w.body) :
        path \in {"/api/webhook", "/orders"},
        w \in Wire({<<"{", "}">>, <<"x">>}),
        s \in {NoSig, Header(HmacHex("whsec_live", <<"{", "}">>))}}

HealthRequest == Request("GET", "/", "none", FALSE, <<>>, NoSig, <<>>)

----------------------------------------------------------------------------
(* POST /api/create-link, lines 41-79 *)

\* !amount_in_inr || typeof amount_in_inr !== 'number'
AmountRejected(amount) == Falsy(amount) \/ amount.t # "number"

\* Math.round(amount_in_inr * 100), the amount being held in thousandths
AmountPaise(amount) ==
    IF amount.inf THEN Infinity ELSE Num((amount.v + 5) \div 10)

\* what the provider's response body may hold once parsed as JSON
ProviderData ==
    [json : {TRUE},
     short_url : {"undefined", "https://rzp.io/i/abc"},
     link_url : {"undefined", "https://rzp.io/l/xyz"},
     error : {"undefined", "BAD_REQUEST_ERROR"}]

\* data.short_url || data.link_url
LinkUrl(data) ==
    IF data.short_url # "undefined" THEN data.short_url ELSE data.link_url

InternalError == Response(500, "internal server error", TRUE)

Suspended(req, stages, stage, ok) ==
    [req |-> req, stages |-> stages, stage |-> stage, ok |-> ok, calls |-> 1,
     amount |-> AmountPaise(JsonParse(req.body).amount)]

Resume(p, q) == (pending (-) SetToBag({p})) (+) SetToBag({q})
Finish(p) == pending (-) SetToBag({p})

\* the handler up to its first await: a response, or the request suspended
\* at the fetch of line 58
CreateLinkHandler(req, m) ==
    LET at == Append(m.stages, "create-link")
    IN IF m.body.kind = "undefined"
       THEN [suspend |-> FALSE, res |-> InternalError, stages |-> at]
       ELSE IF AmountRejected(m.body.amount)
       THEN [suspend |-> FALSE,
             res |-> Response(400, "amount_in_inr required (number)", TRUE),
             stages |-> at]
       ELSE [suspend |-> TRUE, res |-> Response(0, "", TRUE), stages |-> at]

\* the handler after resp.json() has resolved with data
CreateLinkAnswer(ok, data) ==
    IF ~ok
    THEN [Response(502, "payment provider error", TRUE)
            EXCEPT !.details = [present |-> TRUE, data |-> data]]
    ELSE [Response(200, "", TRUE) EXCEPT !.link_url = LinkUrl(data)]

----------------------------------------------------------------------------
(* What the synchronous part of each request does.  It reads no variable   *)
(* but the webhook secret, so it is tabulated per request.                 *)

Secrets == {"", "whsec_live"}

Handled(req, secret, dflt) ==
    LET m == Middleware(req, dflt)
    IN IF ~m.next
       THEN [suspend |-> FALSE,
             x |-> Exchange(req, m.res, m.stages, -1, 0, NoProvider)]
       ELSE CASE req.method = "POST" /\ req.path = "/api/webhook" ->
                   LET h == WebhookHandler(req, m, secret)
                   IN [suspend |-> FALSE,
                       x |-> Exchange(req, h.res, h.stages, h.cmpWork, 0, NoProvider)]
              [] req.method = "POST" /\ req.path = "/api/create-link" ->
                   LET h == CreateLinkHandler(req, m)
                   IN [suspend |-> h.suspend,
                       x |-> Exchange(req, h.res, h.stages, -1, 0, NoProvider)]
              [] req.method = "GET" /\ req.path = "/" ->
                   [suspend |-> FALSE,
                    x |-> Exchange(req, Response(200, "Payment backend running", TRUE),
                                   Append(m.stages, "health"), -1, 0, NoProvider)]
              [] OTHER ->
                   [suspend |-> FALSE,
                    x |-> Exchange(req, Response(404, "Not Found", TRUE),
                                   m.stages, -1, 0, NoProvider)]

Outcomes ==
    [req \in WebhookRequests \cup LinkRequests \cup PreflightRequests
                \cup {HealthRequest} |->
        [secret \in Secrets |-> {Handled(req, secret, d) : d \in BodyDefaults}]]

----------------------------------------------------------------------------
(* The state machine *)

Init ==
    /\ webhookSecret \in Secrets
    /\ pending = EmptyBag
    /\ done = NoExchange

\* a request answered without suspending
Answer(req) ==
    \E o \in Outcomes[req][webhookSecret] :
        /\ ~o.suspend
        /\ done' = o.x
        /\ UNCHANGED <<webhookSecret, pending>>

\* GET /
Health == Answer(HealthRequest)

\* OPTIONS on any path
Preflight(req) == req.method = "OPTIONS" /\ Answer(req)

\* POST /api/webhook
Webhook(req) == req.path = "/api/webhook" /\ Answer(req)

\* POST /api/create-link answered before any provider call
CreateLinkRejects(req) == req.path = "/api/create-link" /\ Answer(req)

\* POST /api/create-link suspended at await fetch(...), the call being made
CreateLinkCalls(req) ==
    \E o \in Outcomes[req][webhookSecret] :
        /\ o.suspend
        /\ BagCardinality(pending) < MaxReqs
        /\ pending' = pending (+) SetToBag({Suspended(req, o.x.stages, "fetch", FALSE)})
        /\ UNCHANGED <<webhookSecret, done>>

\* fetch rejects: the provider could not be reached
FetchRejects(p) ==
    /\ p.stage = "fetch"
    /\ pending' = Finish(p)
    /\ done' = Exchange(p.req, InternalError, p.stages, -1, p.calls,
                        [NoProvider EXCEPT !.fetch = "rejected"])
    /\ UNCHANGED webhookSecret

\* fetch resolves with the provider's status line
FetchResolves(p, ok) ==
    /\ p.stage = "fetch"
    /\ pending' = Resume(p, [p EXCEPT !.stage = "json", !.ok = ok])
    /\ UNCHANGED <<webhookSecret, done>>

\* resp.json() rejects: the provider's body is not JSON, or its transfer broke
JsonRejects(p) ==
    /\ p.stage = "json"
    /\ pending' = Finish(p)
    /\ done' = Exchange(p.req, InternalError, p.stages, -1, p.calls,
                        [fetch |-> "resolved", ok |-> p.ok, json |-> "rejected",
                         data |-> NoData])
    /\ UNCHANGED webhookSecret

\* resp.json() resolves with the parsed body
JsonResolves(p, data) ==
    /\ p.stage = "json"
    /\ pending' = Finish(p)
    /\ done' = Exchange(p.req, CreateLinkAnswer(p.ok, data), p.stages, -1, p.calls,
                        [fetch |-> "resolved", ok |-> p.ok, json |-> "resolved",
                         data |-> data])
    /\ UNCHANGED webhookSecret

Next ==
    \/ Health
    \/ \E req \in PreflightRequests : Preflight(req)
    \/ \E req \in WebhookRequests : Webhook(req)
    \/ \E req \in LinkRequests : CreateLinkRejects(req)
    \/ \E req \in LinkRequests : CreateLinkCalls(req)
    \/ \E p \in BagToSet(pending) : FetchRejects(p)
    \/ \E p \in BagToSet(pending), ok \in BOOLEAN : FetchResolves(p, ok)
    \/ \E p \in BagToSet(pending) : JsonRejects(p)
    \/ \E p \in BagToSet(pending), data \in ProviderData : JsonResolves(p, data)

Spec == Init /\ [][Next]_vars

----------------------------------------------------------------------------
(* Vocabulary of the properties *)

IsWebhook(x) == x.req.method = "POST" /\ x.req.path = "/api/webhook"
IsCreateLink(x) == x.req.method = "POST" /\ x.req.path = "/api/create-link"

Ran(x, stage) == \E i \in DOMAIN x.stages : x.stages[i] = stage
RanBefore(x, first, second) ==
    \E i, j \in DOMAIN x.stages :
        i < j /\ x.stages[i] = first /\ x.stages[j] = second

\* the body is declared as JSON and is not JSON
Malformed(req) == req.hasBody /\ req.ctype = "json" /\ ~WellFormed(req.body)
\* the body is declared as JSON and is JSON
SentJson(req) == req.hasBody /\ req.ctype = "json" /\ WellFormed(req.body)

Answered(x, status, text) == x.res.status = status /\ x.res.text = text

----------------------------------------------------------------------------
(* C1 *)

\* C1: the event field of a webhook is read, and the payment_link.paid
\* branch entered, only after the HMAC of the request's own raw bytes was
\* found equal to the request's signature header, whatever other requests
\* are in progress.
C1_EventReadOnlyAfterMatch ==
    /\ Ran(done, "event") =>
         /\ IsWebhook(done)
         /\ webhookSecret # ""
         /\ done.req.hasBody
         /\ done.req.sig.present
         /\ done.req.sig.v = HmacHex(webhookSecret, done.req.body)
         /\ RanBefore(done, "match", "event")
    /\ Ran(done, "paid") => RanBefore(done, "event", "paid")

C1_Witness ==
    /\ Ran(done, "paid")
    /\ pending # EmptyBag

----------------------------------------------------------------------------
(* C2 *)

----------------------------------------------------------------------------
(* C3 *)

----------------------------------------------------------------------------
(* C4 *)

----------------------------------------------------------------------------
(* C5 *)

\* the amount_in_inr of a body sent as JSON: absent, zero, negative,
\* non-finite or no number
InvalidAmount(req) ==
    LET a == JsonParse(req.body).amount
    IN a.t # "number" \/ a.inf \/ a.v <= 0

\* C5: create-link with amount_in_inr absent, zero, negative, non-finite or
\* non-numeric is answered 400 { error: 'amount_in_inr required (number)' }
\* and makes no call to the provider.
C5_InvalidAmountRejected ==
    /\ (IsCreateLink(done) /\ SentJson(done.req) /\ InvalidAmount(done.req)) =>
           /\ Answered(done, 400, "amount_in_inr required (number)")
           /\ done.calls = 0
    /\ \A p \in BagToSet(pending) : ~InvalidAmount(p.req)

----------------------------------------------------------------------------
(* C6 *)

\* C6: on a success status of the provider the answer's link_url is
\* short_url if present, otherwise link_url; when the provider's body holds
\* neither, the request ends in an error and never in a 200 without URL.
C6_LinkUrlOrError ==
    (IsCreateLink(done) /\ done.prov.json = "resolved" /\ done.prov.ok) =>
        IF done.prov.data.short_url # "undefined"
        THEN done.res.status = 200 /\ done.res.link_url = done.prov.data.short_url
        ELSE IF done.prov.data.link_url # "undefined"
        THEN done.res.status = 200 /\ done.res.link_url = done.prov.data.link_url
        ELSE done.res.status # 200

----------------------------------------------------------------------------
(* C7 *)

\* C7: an OPTIONS request on any path, whatever its body and headers, is
\* answered 204 with the Access-Control-Allow-Origin header, and nothing runs
\* before the CORS middleware answers: no JSON body parsing, no route handler.
C7_PreflightFirst ==
    done.req.method = "OPTIONS" =>
        /\ done.res.status = 204
        /\ done.res.acao
        /\ done.stages = <<"cors">>

----------------------------------------------------------------------------
(* C8 *)

\* C8: the comparison of the computed HMAC with the signature header is
\* constant-time: for headers of the digest's length that mismatch, the work
\* of the comparison is the same wherever the first differing character is.
C8_ConstantTimeCompare ==
    (/\ IsWebhook(done)
     /\ Answered(done, 400, "invalid signature")
     /\ Len(done.req.sig.v) = DigestLen) =>
        LET expected == HmacHex(webhookSecret, done.req.body)
        IN \A i \in 1..DigestLen :
               StrictEqualsWork(Header(ForgeAt(expected, i)), expected)
                   = done.cmpWork

----------------------------------------------------------------------------
(* C9 *)

\* C9: once a webhook's signature has matched, the request is answered
\* 200 'ok' whatever the parsed body holds (any event, a missing event, with
\* or without payload), and the paid branch is entered exactly when event is
\* 'payment_link.paid'.
C9_VerifiedAlwaysOk ==
    (IsWebhook(done) /\ Ran(done, "match")) =>
        /\ Answered(done, 200, "ok")
        /\ Ran(done, "paid") <=>
               JsonParse(done.req.body).event = "payment_link.paid"

C9_Witness ==
    /\ IsWebhook(done)
    /\ Ran(done, "match")
    /\ done.req.body = <<"{", "Ep", "}">>
    /\ Ran(done, "paid")
    /\ Answered(done, 200, "ok")

----------------------------------------------------------------------------
(* C10 *)

\* C10: a create-link request makes at most one call to the provider; a
\* transport failure of the call ends it with 500 'internal server error'; a
\* non-success status of the provider ends it with 502 'payment provider
\* error' and the provider's body as details.
C10_OneCallNoRetry ==
    /\ done.calls <= 1
    /\ \A p \in BagToSet(pending) : p.calls <= 1
    /\ (IsCreateLink(done) /\ done.prov.fetch = "rejected") =>
           Answered(done, 500, "internal server error")
    /\ (IsCreateLink(done) /\ done.prov.fetch = "resolved" /\ ~done.prov.ok) =>
           /\ Answered(done, 502, "payment provider error")
           /\ done.res.details = [present |-> TRUE, data |-> done.prov.data]

====
